---- MODULE Spec2Model ----
(***************************************************************************)
(* Two-state Metropolis-Hastings demo                                      *)
(* (techniques-and-models/w02-04a-mcmc-demo-discrete.ipynb).               *)
(*                                                                         *)
(* Numbers.  The notebook computes with numpy float64 values.  A weight    *)
(* (prior, likelihood) is modelled as an integer multiple of a fixed unit; *)
(* every quantity the notebook derives from the weights (alpha, the        *)
(* posteriors) is a ratio of products of weights and so does not depend on *)
(* the unit.  A ratio is the pair <<numerator, denominator>> and is never  *)
(* reduced.  A zero denominator is what numpy's true division returns for  *)
(* a zero divisor: inf (numerator > 0), -inf (numerator < 0) or nan        *)
(* (numerator = 0); numpy warns and does not raise.  Rounding error of the *)
(* float64 operations is not modelled.                                     *)
(***************************************************************************)
EXTENDS Integers, Sequences, FiniteSets

(* ----------------------------- bounds ----------------------------------- *)

\* largest iteration count explored (the notebook runs int(1e4) iterations)
MaxIter == 3
\* uniform draws are the grid points 0/UDen .. (UDen-1)/UDen of [0,1)
UDen == 4
\* likelihood weights range over -1 .. MaxLik
MaxLik == 3
\* prior weights: prior_loaded ranges over -1 .. MaxPrior+1 (in units of
\* 1/MaxPrior), prior_fair is the remainder to MaxPrior
MaxPrior == 3

(* ------------------------ the notebook's example ------------------------ *)

\* prior_loaded = 0.6, in fifths
NbPriorLoaded == 3
\* the 1 of prior_fair = 1 - 0.6, in fifths
NbPriorOne == 5
\* likelihood_if_fair = comb(5,2) * 0.5**5 = 0.3125, in 1e-4
NbLikelihoodFair == 3125
\* likelihood_if_loaded = comb(5,2) * 0.7**2 * 0.3**3 = 0.1323, in 1e-4
NbLikelihoodLoaded == 1323

Notebook ==
    [likelihood_if_fair   |-> NbLikelihoodFair,
     prior_fair           |-> NbPriorOne - NbPriorLoaded,
     likelihood_if_loaded |-> NbLikelihoodLoaded,
     prior_loaded         |-> NbPriorLoaded]

\* the weights explored: small integers of either sign, and the example
Inputs ==
    { [likelihood_if_fair   |-> lf,
       prior_fair           |-> MaxPrior - pl,
       likelihood_if_loaded |-> ll,
       prior_loaded         |-> pl] :
         lf \in -1..MaxLik, ll \in -1..MaxLik, pl \in -1..(MaxPrior + 1) }
    \cup {Notebook}

(* --------------------------- ratios (float64) --------------------------- *)

\* x >= 1 for a ratio x; inf >= 1, and -inf >= 1, nan >= 1 are False
GeOne(x) ==
    IF x[2] > 0 THEN x[1] >= x[2]
    ELSE IF x[2] < 0 THEN x[1] <= x[2]
    ELSE x[1] > 0

\* draw <= x for a draw k/UDen given as <<k, UDen>> and a ratio x
Leq(draw, x) ==
    IF x[2] > 0 THEN draw[1] * x[2] <= x[1] * draw[2]
    ELSE IF x[2] < 0 THEN draw[1] * x[2] >= x[1] * draw[2]
    ELSE x[1] > 0

(* ------------------------------ cell 2 ---------------------------------- *)

denom(ws) ==
    (ws.likelihood_if_fair * ws.prior_fair)
      + (ws.likelihood_if_loaded * ws.prior_loaded)

posterior_fair(ws) == << ws.likelihood_if_fair * ws.prior_fair, denom(ws) >>

posterior_loaded(ws) ==
    << ws.likelihood_if_loaded * ws.prior_loaded, denom(ws) >>

(* ------------------------------ cell 3 ---------------------------------- *)

\* get_alpha returning the inverse ratio, g(current) / g(proposed)
get_alpha_inverse(s, likelihood_fair, p_fair_, likelihood_loaded, p_loaded_) ==
    IF s = 1
    THEN << likelihood_fair * p_fair_, likelihood_loaded * p_loaded_ >>
    ELSE << likelihood_loaded * p_loaded_, likelihood_fair * p_fair_ >>

\* 0=fair, 1=loaded
get_alpha(s, likelihood_fair, p_fair_, likelihood_loaded, p_loaded_) ==
    IF s = 1
    THEN << likelihood_loaded * p_loaded_, likelihood_fair * p_fair_ >>
    ELSE << likelihood_fair * p_fair_, likelihood_loaded * p_loaded_ >>

(* ------------------------------- state ---------------------------------- *)

VARIABLES
    w,               \* likelihood_if_fair, prior_fair, likelihood_if_loaded,
                     \* prior_loaded: set in cell 2, never assigned again
    iterations,      \* the argument of range() in the for statement
    thetas,          \* the sample trace
    state,           \* the chain state, 0=fair, 1=loaded
    proposed_state,  \* bound by the first iteration
    alpha,           \* the module-level name alpha
    i,               \* completed iterations of the for loop
    u,               \* the last value np.random.uniform returned
    rng,             \* number of uniform variates taken from np.random
    p_loaded,        \* cell 5: the fraction of samples equal to 1
    p_fair,          \* cell 5: the fraction of samples equal to 0
    pi_P,            \* cells 7 and 8: the product of a row vector and P
    pc               \* position in the notebook

vars == << w, iterations, thetas, state, proposed_state, alpha, i, u, rng,
           p_loaded, p_fair, pi_P, pc >>

\* a name of cells 5-8 before the cell has run
Unset == << >>

\* proposed_state before its first assignment
Unbound == -1

\* the value of a draw that was never made
NoDraw == << 0, 0 >>

Alpha(s) ==
    get_alpha(s, w.likelihood_if_fair, w.prior_fair,
              w.likelihood_if_loaded, w.prior_loaded)

\* the notebook after cells 1-3 and the first two statements of cell 4
Init ==
    /\ w \in Inputs
    /\ iterations \in 0..MaxIter
    /\ thetas = << >>
    /\ state \in {0, 1}
    /\ proposed_state = Unbound
    /\ alpha = Alpha(0)
    /\ i = 0
    /\ u = NoDraw
    /\ rng = 0
    /\ p_loaded = Unset
    /\ p_fair = Unset
    /\ pi_P = Unset
    /\ pc = "for"

(* ------------------------------ cell 4 ---------------------------------- *)

\* Propose taking the successor of state for its complement
Propose_Successor ==
    /\ pc = "for"
    /\ i < iterations
    /\ proposed_state' = state + 1
    /\ alpha' = Alpha(proposed_state')
    /\ pc' = "if"
    /\ UNCHANGED << w, iterations, thetas, state, i, u, rng,
                    p_loaded, p_fair, pi_P >>

\* Propose with a loop that runs range(iterations + 1)
Propose_OneMore ==
    /\ pc = "for"
    /\ i <= iterations
    /\ proposed_state' = (IF state = 0 THEN 1 ELSE 0)
    /\ alpha' = Alpha(proposed_state')
    /\ pc' = "if"
    /\ UNCHANGED << w, iterations, thetas, state, i, u, rng,
                    p_loaded, p_fair, pi_P >>

\* for i in range(iterations): the next item exists; the first two
\* statements of the body
Propose ==
    /\ pc = "for"
    /\ i < iterations
    /\ proposed_state' = (IF state = 0 THEN 1 ELSE 0)
    /\ alpha' = Alpha(proposed_state')
    /\ pc' = "if"
    /\ UNCHANGED << w, iterations, thetas, state, i, u, rng,
                 p_loaded, p_fair, pi_P >>

\* AcceptAlways recording and keeping the current state
AcceptAlways_Stay ==
    /\ pc = "if"
    /\ GeOne(alpha)
    /\ thetas' = Append(thetas, state)
    /\ proposed_state' = state
    /\ state' = state
    /\ i' = i + 1
    /\ pc' = "for"
    /\ UNCHANGED << w, iterations, alpha, u, rng, p_loaded, p_fair, pi_P >>

\* if alpha >= 1: thetas.append(proposed_state); state = proposed_state
AcceptAlways ==
    /\ pc = "if"
    /\ GeOne(alpha)
    /\ thetas' = Append(thetas, proposed_state)
    /\ state' = proposed_state
    /\ i' = i + 1
    /\ pc' = "for"
    /\ UNCHANGED << w, iterations, proposed_state, alpha, u, rng,
                 p_loaded, p_fair, pi_P >>

\* Draw recording nothing when the proposal is rejected
Draw_NoRecordOnReject(k) ==
    /\ pc = "if"
    /\ ~GeOne(alpha)
    /\ u' = << k, UDen >>
    /\ rng' = rng + 1
    /\ IF Leq(u', alpha)
       THEN /\ thetas' = Append(thetas, proposed_state)
            /\ proposed_state' = proposed_state
       ELSE /\ thetas' = thetas
            /\ proposed_state' = state
    /\ state' = proposed_state'
    /\ i' = i + 1
    /\ pc' = "for"
    /\ UNCHANGED << w, iterations, alpha, p_loaded, p_fair, pi_P >>

\* Draw without the statement proposed_state = state of the reject branch
Draw_NoReset(k) ==
    /\ pc = "if"
    /\ ~GeOne(alpha)
    /\ u' = << k, UDen >>
    /\ rng' = rng + 1
    /\ IF Leq(u', alpha)
       THEN thetas' = Append(thetas, proposed_state)
       ELSE thetas' = Append(thetas, state)
    /\ proposed_state' = proposed_state
    /\ state' = proposed_state'
    /\ i' = i + 1
    /\ pc' = "for"
    /\ UNCHANGED << w, iterations, alpha, p_loaded, p_fair, pi_P >>

\* else: the draw, and one of the two inner branches
Draw(k) ==
    /\ pc = "if"
    /\ ~GeOne(alpha)
    /\ u' = << k, UDen >>
    /\ rng' = rng + 1
    /\ IF Leq(u', alpha)
       THEN /\ thetas' = Append(thetas, proposed_state)
            /\ proposed_state' = proposed_state
       ELSE /\ thetas' = Append(thetas, state)
            /\ proposed_state' = state
    /\ state' = proposed_state'
    /\ i' = i + 1
    /\ pc' = "for"
    /\ UNCHANGED << w, iterations, alpha,
                 p_loaded, p_fair, pi_P >>

\* range() is exhausted
LoopExit ==
    /\ pc = "for"
    /\ i >= iterations
    /\ pc' = "cell5"
    /\ UNCHANGED << w, iterations, thetas, state, proposed_state, alpha, i, u, rng,
                 p_loaded, p_fair, pi_P >>

(* ------------------------------ cell 5 ---------------------------------- *)

\* the number of entries of the sequence s equal to v
RECURSIVE Count(_, _)
Count(s, v) ==
    IF s = << >> THEN 0
    ELSE (IF Head(s) = v THEN 1 ELSE 0) + Count(Tail(s), v)

\* np.mean(np.array(s) == v); the mean of an empty array is nan
mean_ind(s, v) == << Count(s, v), Len(s) >>

Cell5 ==
    /\ pc = "cell5"
    /\ p_loaded' = mean_ind(thetas, 1)
    /\ p_fair' = mean_ind(thetas, 0)
    /\ pc' = "cell7"
    /\ UNCHANGED << w, iterations, thetas, state, proposed_state, alpha, i, u,
                    rng, pi_P >>

(* ----------------------------- cells 6-8 -------------------------------- *)

\* the transition matrix, rows and columns ordered fair, loaded, in 1e-3
P == << << 365, 635 >>, << 1000, 0 >> >>

\* the posterior found by a simulation run, in 1e-5
pi_s == << 61520, 38480 >>

\* the analytical posterior, in 1e-5
pi_a == << 61161, 38839 >>

\* matmul multiplying the matrix by the vector as a column
matmul_column(v, M) ==
    << M[1][1] * v[1] + M[1][2] * v[2], M[2][1] * v[1] + M[2][2] * v[2] >>

\* np.matmul of a row vector and a 2x2 matrix
matmul(v, M) ==
    << v[1] * M[1][1] + v[2] * M[2][1], v[1] * M[1][2] + v[2] * M[2][2] >>

Cell7 ==
    /\ pc = "cell7"
    /\ pi_P' = matmul(pi_s, P)
    /\ pc' = "cell8"
    /\ UNCHANGED << w, iterations, thetas, state, proposed_state, alpha, i, u,
                    rng, p_loaded, p_fair >>

Cell8 ==
    /\ pc = "cell8"
    /\ pi_P' = matmul(pi_a, P)
    /\ pc' = "end"
    /\ UNCHANGED << w, iterations, thetas, state, proposed_state, alpha, i, u,
                    rng, p_loaded, p_fair >>

Next ==
    \/ Propose
    \/ AcceptAlways
    \/ \E k \in 0..(UDen - 1) : Draw(k)
    \/ LoopExit
    \/ Cell5
    \/ Cell7
    \/ Cell8

Spec == Init /\ [][Next]_vars

\* the notebook's cells run to completion, one statement after another
FairSpec == Spec /\ WF_vars(Next)

(* ============================ properties ================================ *)

\* g(theta) = f(x=2|theta) * f(theta), the weight of hypothesis s
g(s) ==
    IF s = 1 THEN w.likelihood_if_loaded * w.prior_loaded
    ELSE w.likelihood_if_fair * w.prior_fair

\* the other hypothesis
Other(s) == 1 - s

\* an input the specification calls invalid: a negative prior or likelihood,
\* or both likelihoods zero
InvalidInput ==
    \/ w.prior_fair < 0
    \/ w.prior_loaded < 0
    \/ w.likelihood_if_fair < 0
    \/ w.likelihood_if_loaded < 0
    \/ (w.likelihood_if_fair = 0 /\ w.likelihood_if_loaded = 0)

\* both weights are positive
ValidWeights == g(0) > 0 /\ g(1) > 0

\* the sequence s holds both labels
BothLabels(s) == (\E j \in 1..Len(s) : s[j] = 0) /\ (\E j \in 1..Len(s) : s[j] = 1)

\* the loop of cell 4 is over
LoopDone == pc \notin {"for", "if"}

\* C1: the trace is append-only with exactly one sample per iteration: after
\* k completed iterations it has length k, a step of the notebook leaves the
\* recorded entries as they are and appends at most one, and the loop ends
\* after exactly `iterations` iterations with a trace of that length.
C1_TraceAppendOnly ==
    /\ [](/\ Len(thetas) = i
          /\ i <= iterations
          /\ (LoopDone => Len(thetas) = iterations))
    /\ [][/\ Len(thetas') \in {Len(thetas), Len(thetas) + 1}
          /\ SubSeq(thetas', 1, Len(thetas)) = thetas
          /\ (pc = "if" => Len(thetas') = Len(thetas) + 1)]_vars
    /\ <>(LoopDone /\ Len(thetas) = iterations)

C1_Witness ==
    /\ ~InvalidInput
    /\ ValidWeights
    /\ LoopDone
    /\ iterations >= 2
    /\ Len(thetas) = iterations
    /\ rng >= 1
    /\ BothLabels(thetas)

\* C2: the chain state, the proposed state (once the first iteration has
\* bound it) and every label of the trace are 0 or 1.
C2_TwoStates ==
    /\ state \in {0, 1}
    /\ (pc = "if" \/ i > 0) => proposed_state \in {0, 1}
    /\ \A j \in 1..Len(thetas) : thetas[j] \in {0, 1}

C2_Witness ==
    /\ ~InvalidInput
    /\ ValidWeights
    /\ i >= 2
    /\ pc = "if"
    /\ proposed_state = Other(state)
    /\ BothLabels(thetas)

\* no two consecutive samples of the sequence s are loaded
NoTwoLoaded(s) == \A j \in 1..(Len(s) - 1) : ~(s[j] = 1 /\ s[j + 1] = 1)

\* C3: in an iteration where the weight of the complement is at least the
\* (positive) weight of the current state, the chain moves to the complement
\* and records it, and no uniform variate is drawn; with the notebook's
\* weights the trace never holds two consecutive loaded samples.
C3_DeterministicAcceptance ==
    /\ [][(pc = "if" /\ g(state) > 0 /\ g(Other(state)) >= g(state))
            => /\ state' = Other(state)
               /\ thetas' = Append(thetas, Other(state))
               /\ rng' = rng
               /\ u' = u]_vars
    /\ [](w = Notebook => NoTwoLoaded(thetas))

C3_Witness ==
    /\ w = Notebook
    /\ Len(thetas) >= 3
    /\ thetas[Len(thetas) - 1] = 1
    /\ thetas[Len(thetas)] = 0
    /\ rng >= 1

(* ---- exact arithmetic on ratios with positive denominators ---- *)

RECURSIVE Gcd(_, _)
Gcd(a, b) == IF b = 0 THEN a ELSE Gcd(b, a % b)

Reduce(x) == << x[1] \div Gcd(x[1], x[2]), x[2] \div Gcd(x[1], x[2]) >>

RatMul(x, y) == Reduce(<< x[1] * y[1], x[2] * y[2] >>)

\* min(1, x)
MinOne(x) == IF GeOne(x) THEN << 1, 1 >> ELSE x

\* the posterior of hypothesis s, from cell 2
Posterior(s) == IF s = 1 THEN posterior_loaded(w) ELSE posterior_fair(w)

\* the probability that an iteration started in state s moves to Other(s):
\* the loop proposes Other(s) and accepts it with probability min(1, alpha)
T(s) == MinOne(Alpha(Other(s)))

\* C4: detailed balance.  For positive weights, with pi the posterior of
\* cell 2 and T the transition probability min(1, alpha) of the loop's
\* acceptance rule, pi(fair) * T(fair -> loaded) = pi(loaded) * T(loaded -> fair).
C4_DetailedBalance ==
    ValidWeights =>
        RatMul(Posterior(0), T(0)) = RatMul(Posterior(1), T(1))

C4_Witness ==
    /\ ~InvalidInput
    /\ ValidWeights
    /\ g(0) # g(1)
    /\ pc = "if"
    /\ alpha = Alpha(Other(state))
    /\ ~GeOne(alpha)
    /\ i >= 1

\* x rounded to n = 10^d units (d decimals), for a ratio x >= 0
Round(x, n) == (2 * n * x[1] + x[2]) \div (2 * x[2])

\* |a - b|
AbsDiff(a, b) == IF a >= b THEN a - b ELSE b - a

\* C5: stationarity.  The product of pi_a and P that cell 8 computes differs
\* from pi_a by at most 1e-3 in each component (pi_P is in units of 1e-8);
\* pi_a is the posterior of cell 2 to five decimals and the entries of P are
\* the transition probabilities of the acceptance rule to three decimals.
C5_Stationarity ==
    pc = "end" =>
        /\ \A j \in 1..2 : AbsDiff(pi_P[j], 1000 * pi_a[j]) <= 100000
        /\ pi_a = << Round(posterior_fair(Notebook), 100000),
                     Round(posterior_loaded(Notebook), 100000) >>
        /\ w = Notebook =>
             /\ P[1][2] = Round(T(0), 1000)
             /\ P[1][1] = 1000 - P[1][2]
             /\ P[2][1] = Round(T(1), 1000)
             /\ P[2][2] = 1000 - P[2][1]

C5_Witness ==
    /\ pc = "end"
    /\ w = Notebook
    /\ pi_P = << 61162765, 38837235 >>

\* C6: on an invalid input no computation proceeds: no iteration completes
\* and no sample is appended to the trace.
C6_InvalidRejected ==
    InvalidInput => (thetas = << >> /\ i = 0)

\* C7: with an iteration count of 0 the loop body never runs: the trace stays
\* empty, no acceptance ratio is computed, no uniform variate is drawn, the
\* chain state stays the initial state, and the notebook runs to its end.
C7_ZeroIterations ==
    /\ [](iterations = 0 =>
            /\ thetas = << >>
            /\ rng = 0
            /\ u = NoDraw
            /\ proposed_state = Unbound
            /\ pc # "if")
    /\ [][iterations = 0 => (state' = state /\ alpha' = alpha)]_vars
    /\ [](iterations = 0 => <>(pc = "end"))

C7_Witness ==
    /\ iterations = 0
    /\ pc = "end"
    /\ thetas = << >>
    /\ p_loaded = << 0, 0 >>

\* C9: the step rule.  An iteration moves the chain to the complement
\* exactly when alpha >= 1, or alpha < 1 and the draw is <= alpha, and leaves
\* it where it is otherwise; the label it appends is the chain state after
\* the iteration, so the chain state is the last element of the trace.
C9_StepRule ==
    /\ [][pc = "if" =>
            LET a == Alpha(Other(state))
                moved == GeOne(a) \/ (~GeOne(a) /\ rng' = rng + 1 /\ Leq(u', a))
            IN /\ state' = (IF moved THEN Other(state) ELSE state)
               /\ thetas' = Append(thetas, state')]_vars
    /\ [](i > 0 => state = thetas[Len(thetas)])

C9_Witness ==
    /\ ~InvalidInput
    /\ ValidWeights
    /\ pc = "for"
    /\ i >= 3
    /\ ~GeOne(Alpha(Other(state)))
    /\ thetas[i] = thetas[i - 1]
    /\ thetas[i - 1] # thetas[i - 2]
    /\ state = thetas[i]

\* C10: a hypothesis of weight 0 is never entered from one of positive
\* weight (priors and likelihoods non-negative): whatever the draw, the
\* chain stays and records the current state.
C10_ZeroWeightNeverEntered ==
    [][(pc = "if" /\ ~InvalidInput /\ g(state) > 0 /\ g(Other(state)) = 0)
         => (state' = state /\ thetas' = Append(thetas, state))]_vars

====
